---------------------------- MODULE Spec2Model ----------------------------
(***************************************************************************)
(* Model of the LinkedIn job search pipeline (scripts/*.py).               *)
(*                                                                         *)
(*   Spec         the jobs table of job_database.py under any sequence of  *)
(*                add_jobs_to_database and mark_jobs_as_processed calls    *)
(*   SpecDedup    a first ingest into the empty store followed by          *)
(*                filter_new_jobs queries                                  *)
(*   SpecStore    the jobs table under add_jobs_to_database and            *)
(*                filter_new_jobs calls in any order                       *)
(*   SpecHistory  the jobs and scraping_history tables under the three     *)
(*                functions that write to them                             *)
(*   SpecSheet    the remote spreadsheet under any sequence of             *)
(*                save_analyzed_jobs_to_sheet calls                        *)
(*   SpecPublish  one save_analyzed_jobs_to_sheet call on a remote sheet   *)
(*                in any state earlier publishes can leave                 *)
(*   SpecRun      pipeline runs (main.py) one after another: sheet check,  *)
(*                scrape, dedup, analysis, publish                         *)
(*   SpecExtract  extract_response_sections (llm_analyzer.py) applied to   *)
(*                a response text                                          *)
(*   SpecBatch    one call of analyze_jobs_batch (llm_analyzer.py) with    *)
(*                its concurrent tasks                                     *)
(*   SpecScrape   one call of run_apify_linkedin_scraper                   *)
(*                (apify_scraper.py): its batches and its polling loop     *)
(*                                                                         *)
(* Strings stand for Python values.  A dictionary key that is not present  *)
(* is the marker Absent, a value of a type sqlite3 cannot bind (a dict, a  *)
(* list) is the marker NotBindable.  Identifiers are strings, on which     *)
(* str() changes nothing.  Dates are day numbers: "%Y-%m-%d" strings order *)
(* as the days they name.                                                  *)
(***************************************************************************)
EXTENDS Integers, Sequences, FiniteSets, TLC

VARIABLES
    jobs,               \* rows of table jobs (job_database.py:42-50)
    scraping_history,   \* rows of table scraping_history, in insertion order
    today,              \* the day datetime.now() last returned
    last,               \* the last direct call of a job_database,
                        \* sheets_integration or llm_analyzer function: its
                        \* name, argument and outcome
    sheet,              \* the remote spreadsheet: header row and data rows
    pipeline,           \* the locals of the pipeline run in progress (main)
    analysis,           \* the analyze_jobs_batch call in progress: its
                        \* arguments, its tasks, the CSV lock and file, the
                        \* results collected and the value returned
    scraper             \* the run_apify_linkedin_scraper call in progress:
                        \* its batch loop, its polling loop and its results

vars == <<jobs, scraping_history, today, last, sheet, pipeline, analysis, scraper>>

(***************************************************************************)
(* Bounds of the model.                                                    *)
(***************************************************************************)
MaxBatch == 2       \* longest list handed to a job_database function
MaxDate == 2        \* days the clock can reach
MaxRows == 2        \* data rows the remote sheet can hold
MaxRuns == 2        \* pipeline runs

Absent == "<absent>"
NotBindable == "<dict>"

(***************************************************************************)
(* Listings as the scraper may hand them over.  Two carry the same job_id  *)
(* with different title, company and location, and the second of them has  *)
(* a title sqlite3 cannot bind; one has no company key; one has an empty   *)
(* job_id and one has no job_id key.                                       *)
(***************************************************************************)
Listings ==
    { [job_id |-> "a", title |-> "t1", company |-> "c1", location |-> "l1"],
      [job_id |-> "a", title |-> NotBindable, company |-> "c2", location |-> "l2"],
      [job_id |-> "b", title |-> "t2", company |-> Absent, location |-> "l1"],
      [job_id |-> "", title |-> "t1", company |-> "c1", location |-> "l1"],
      [job_id |-> Absent, title |-> "t1", company |-> "c1", location |-> "l1"] }

\* the sequences of at most n different elements of S
SeqsUpTo(S, n) ==
    { s \in UNION { [1..k -> S] : k \in 0..n } :
        \A i, j \in 1..Len(s) : i # j => s[i] # s[j] }

Batches == SeqsUpTo(Listings, MaxBatch)

\* identifiers handed to mark_jobs_as_processed; "zz" is never stored
MarkIds == {"a", "b", "zz"}

IdLists == SeqsUpTo(MarkIds, MaxBatch)

\* the thinner inputs of the specification that adds the run history
HistoryBatches == SeqsUpTo({ l \in Listings : l.title # NotBindable /\ l.job_id \in {"a", "b"} }, MaxBatch)

HistoryIdLists == SeqsUpTo({"a", "zz"}, MaxBatch)

RunIds == {"r1", "r2"}

\* Analysis results handed to the publisher: two for the same listing with
\* different recommendation texts, two listings with the same text, and one
\* with no recommendation text.
PublishedResults ==
    { [job_id |-> "j1", recommendation |-> "rA", match_score |-> 7],
      [job_id |-> "j1", recommendation |-> "rB", match_score |-> 8],
      [job_id |-> "j2", recommendation |-> "rA", match_score |-> 7],
      [job_id |-> "j2", recommendation |-> "", match_score |-> 9] }

PublishBatches == SeqsUpTo(PublishedResults, MaxBatch)

\* A listing of the scraper's dataset that carries the same value under id
\* and under job_id.
Listing(id) ==
    [ id |-> id, job_id |-> id, title |-> "t", company |-> "c",
      location |-> "l", descriptionText |-> "d" ]

\* What a scrape can return: nothing (no batch of the scraper succeeded),
\* one listing twice (two search URLs gave it), two listings, the same two
\* among five, and a pair made of a listing with an id but no job_id key
\* and a listing with no descriptionText.
Fetches ==
    { << >>,
      << Listing("j1"), Listing("j1") >>,
      << Listing("j1"), Listing("j2") >>,
      << Listing("j1"), Listing("j2"), Listing("j3"), Listing("j4"), Listing("j5") >>,
      << [Listing("j6") EXCEPT !.job_id = Absent],
         [Listing("j7") EXCEPT !.descriptionText = Absent] >> }

\* config_overrides as main receives it: None from the scheduler, a
\* dictionary from the command line (keys is the set of its keys)
ConfigOverrides ==
    { [none |-> TRUE, keys |-> {}, max_jobs_to_analyze |-> 0, force_update |-> FALSE],
      [none |-> FALSE, keys |-> {"max_jobs_to_analyze"},
       max_jobs_to_analyze |-> 3, force_update |-> FALSE],
      [none |-> FALSE, keys |-> {"max_jobs_to_analyze"},
       max_jobs_to_analyze |-> 2, force_update |-> FALSE] }

\* how the analysis of one listing can end: no result, a score below the
\* threshold, a score at the threshold
Outcomes == {"none", "low", "high"}

\* the recommendation text of the generated answer for a listing
RecommendationFor(job) ==
    CASE job.id \in {"j1", "j3", "j6"} -> "rA"
      [] job.id \in {"j2", "j4"} -> "rB"
      [] OTHER -> ""

Range(s) == { s[i] : i \in 1..Len(s) }

\* dict.get(key, default)
Get(value, default) == IF value = Absent THEN default ELSE value

\* str(job.get("job_id")): a missing key read as the string of None
JobIdOf_NoDefault(job) == job.job_id

\* str(job.get("job_id", ""))
JobIdOf(job) == Get(job.job_id, "")

(***************************************************************************)
(* SQL statements of job_database.py on the jobs table.                    *)
(***************************************************************************)

\* SELECT job_id FROM jobs WHERE job_id = ?  ... fetchone() is not None
Exists(tbl, job_id) == \E r \in tbl : r.job_id = job_id

\* an UPDATE that writes the other date column
UpdateLastChecked_FirstSeen(tbl, job_id, current_date) ==
    { IF r.job_id = job_id THEN [r EXCEPT !.first_seen_date = current_date]
                           ELSE r : r \in tbl }

\* an UPDATE that resets the row as INSERT OR REPLACE would
UpdateLastChecked_Replace(tbl, job_id, current_date) ==
    { IF r.job_id = job_id
      THEN [r EXCEPT !.first_seen_date = current_date,
                     !.last_checked_date = current_date]
      ELSE r : r \in tbl }

\* UPDATE jobs SET last_checked_date = ? WHERE job_id = ?
UpdateLastChecked(tbl, job_id, current_date) ==
    { IF r.job_id = job_id THEN [r EXCEPT !.last_checked_date = current_date]
                           ELSE r : r \in tbl }

\* sqlite3 binds str, int, float, bytes and None only
Bindable(v) == v # NotBindable

\* INSERT INTO jobs (job_id, title, company, location, first_seen_date,
\* last_checked_date) VALUES (...); is_processed takes its DEFAULT 0
InsertedRow(job, job_id, current_date) ==
    [ job_id |-> job_id,
      title |-> Get(job.title, ""),
      company |-> Get(job.company, ""),
      location |-> Get(job.location, ""),
      first_seen_date |-> current_date,
      last_checked_date |-> current_date,
      is_processed |-> 0 ]

InsertRaises(job) ==
    \/ ~Bindable(Get(job.title, ""))
    \/ ~Bindable(Get(job.company, ""))
    \/ ~Bindable(Get(job.location, ""))

(***************************************************************************)
(* add_jobs_to_database: the body of the for loop for one listing.  st is  *)
(* the state of the call: the uncommitted table, the two counters, whether *)
(* a statement raised, and the number of listings fully processed.         *)
(***************************************************************************)
\* an update branch that also refreshes title, company and location
AddOne_Refresh(st, job, current_date) ==
    LET job_id == JobIdOf(job) IN
    IF job_id = "" THEN [st EXCEPT !.k = @ + 1]
    ELSE IF Exists(st.tbl, job_id)
    THEN [st EXCEPT !.tbl = { IF r.job_id = job_id
                              THEN [r EXCEPT !.last_checked_date = current_date,
                                             !.title = Get(job.title, ""),
                                             !.company = Get(job.company, ""),
                                             !.location = Get(job.location, "")]
                              ELSE r : r \in @ },
                    !.updated = @ + 1,
                    !.k = @ + 1]
    ELSE IF InsertRaises(job) THEN [st EXCEPT !.raised = TRUE]
    ELSE [st EXCEPT !.tbl = @ \cup {InsertedRow(job, job_id, current_date)},
                    !.new = @ + 1,
                    !.k = @ + 1]

AddOne(st, job, current_date) ==
    LET job_id == JobIdOf(job) IN
    IF job_id = "" THEN [st EXCEPT !.k = @ + 1]
    ELSE IF Exists(st.tbl, job_id)
    THEN [st EXCEPT !.tbl = UpdateLastChecked(@, job_id, current_date),
                    !.updated = @ + 1,
                    !.k = @ + 1]
    ELSE IF InsertRaises(job) THEN [st EXCEPT !.raised = TRUE]
    ELSE [st EXCEPT !.tbl = @ \cup {InsertedRow(job, job_id, current_date)},
                    !.new = @ + 1,
                    !.k = @ + 1]

RECURSIVE AddLoop(_, _, _)
AddLoop(st, batch, current_date) ==
    IF batch = <<>> \/ st.raised THEN st
    ELSE AddLoop(AddOne(st, Head(batch), current_date), Tail(batch), current_date)

AddRun(tbl, batch, current_date) ==
    AddLoop([tbl |-> tbl, new |-> 0, updated |-> 0, raised |-> FALSE, k |-> 0],
            batch, current_date)

\* every statement committed as it is executed
AfterAdd_RowCommits(tbl, run) == run.tbl

\* What the table holds once the call is over: conn.commit() is reached only
\* after the loop; a call that raised leaves the connection uncommitted and
\* sqlite rolls its transaction back.
AfterAdd(tbl, run) == IF run.raised THEN tbl ELSE run.tbl

\* get_known_job_ids: SELECT job_id FROM jobs, as a set
KnownJobIds(tbl) == { r.job_id : r \in tbl }

\* datetime.now().strftime("%Y-%m-%d")
CurrentDate == today

\* Midnight passes.
tick ==
    /\ today < MaxDate
    /\ today' = today + 1
    /\ UNCHANGED <<jobs, scraping_history, last, sheet, pipeline, analysis, scraper>>

add_jobs_to_database(inputs) ==
    \E batch \in inputs :
        LET run == AddRun(jobs, batch, CurrentDate) IN
        /\ jobs' = AfterAdd(jobs, run)
        /\ last' = [ op |-> "add_jobs_to_database",
                     arg |-> batch,
                     raised |-> run.raised,
                     ret |-> [new |-> run.new, updated |-> run.updated],
                     k |-> run.k,
                     before |-> KnownJobIds(jobs),
                     date |-> CurrentDate ]
        /\ UNCHANGED <<scraping_history, today, sheet, pipeline, analysis, scraper>>

(***************************************************************************)
(* filter_new_jobs: the listings whose str(job_id) is not a known job id,  *)
(* in input order.                                                         *)
(***************************************************************************)
\* a filter that also drops the listings without a job_id
IsNewJob_DropsEmpty(job, known_job_ids) ==
    JobIdOf(job) # "" /\ JobIdOf(job) \notin known_job_ids

IsNewJob(job, known_job_ids) == JobIdOf(job) \notin known_job_ids

FilterNew(tbl, batch) ==
    LET known_job_ids == KnownJobIds(tbl)
        keep(job) == IsNewJob(job, known_job_ids)
    IN SelectSeq(batch, keep)

\* the call a query came after, kept when it was an add_jobs_to_database
Preceding(call) ==
    IF call.op = "add_jobs_to_database" THEN call ELSE [op |-> call.op]

filter_new_jobs(inputs) ==
    \E batch \in inputs :
        /\ last' = [ op |-> "filter_new_jobs",
                     arg |-> batch,
                     ret |-> FilterNew(jobs, batch),
                     after |-> Preceding(last) ]
        /\ UNCHANGED <<jobs, scraping_history, today, sheet, pipeline, analysis, scraper>>

(***************************************************************************)
(* mark_jobs_as_processed: UPDATE jobs SET is_processed = 1 WHERE job_id   *)
(* IN (...); the value returned is cursor.rowcount, the rows the UPDATE    *)
(* matched.  An empty list returns 0 before the database is opened.        *)
(***************************************************************************)
MarkedRows(tbl, job_ids) == { r \in tbl : r.job_id \in Range(job_ids) }

MarkProcessed(tbl, job_ids) ==
    { IF r \in MarkedRows(tbl, job_ids) THEN [r EXCEPT !.is_processed = 1]
                                        ELSE r : r \in tbl }

\* the length of the list instead of cursor.rowcount
MarkCount_Len(tbl, job_ids) == Len(job_ids)

MarkCount(tbl, job_ids) ==
    IF job_ids = <<>> THEN 0 ELSE Cardinality(MarkedRows(tbl, job_ids))

mark_jobs_as_processed(inputs) ==
    \E job_ids \in inputs :
        /\ jobs' = IF job_ids = <<>> THEN jobs ELSE MarkProcessed(jobs, job_ids)
        /\ last' = [ op |-> "mark_jobs_as_processed",
                     arg |-> job_ids,
                     raised |-> FALSE,
                     ret |-> MarkCount(jobs, job_ids) ]
        /\ UNCHANGED <<scraping_history, today, sheet, pipeline, analysis, scraper>>

(***************************************************************************)
(* record_scraping_run: INSERT INTO scraping_history.  run_id is the       *)
(* PRIMARY KEY of the table, so the INSERT of a run_id already present     *)
(* raises sqlite3.IntegrityError; the function does not catch it and the   *)
(* commit is not reached.                                                  *)
(***************************************************************************)
RunIdTaken(history, run_id) ==
    \E i \in 1..Len(history) : history[i].run_id = run_id

HistoryRow(run_id, timestamp, search_config, job_count, new_job_count) ==
    [ run_id |-> run_id,
      timestamp |-> timestamp,
      search_config |-> search_config,
      job_count |-> job_count,
      new_job_count |-> new_job_count ]

\* INSERT OR REPLACE
InsertRun_Replace(history, row) ==
    IF RunIdTaken(history, row.run_id)
    THEN [ i \in 1..Len(history) |->
             IF history[i].run_id = row.run_id THEN row ELSE history[i] ]
    ELSE Append(history, row)

InsertRun(history, row) ==
    IF RunIdTaken(history, row.run_id) THEN history ELSE Append(history, row)

record_scraping_run ==
    \E run_id \in RunIds :
        LET row == HistoryRow(run_id, CurrentDate, "cfg", Cardinality(jobs), 0) IN
        /\ scraping_history' = InsertRun(scraping_history, row)
        /\ last' = [ op |-> "record_scraping_run",
                     arg |-> row,
                     raised |-> RunIdTaken(scraping_history, run_id) ]
        /\ UNCHANGED <<jobs, today, sheet, pipeline, analysis, scraper>>

(***************************************************************************)
(* sheets_integration.py.  A data row is the list of cells that            *)
(* save_analyzed_jobs_to_sheet builds.  The code builds 26 cells; the      *)
(* model keeps the first nine, columns A to I, the only ones that are read *)
(* back.  Positions count from 1 here and from 0 in the code.              *)
(***************************************************************************)
KeyColumn == 7          \* row[6], the cell both functions take as the key
JobIdColumn == 9        \* the cell job.get('job_id', '') goes to
RangeColumns == 7       \* cells per row in GOOGLE_SHEET_RANGE, "A2:G"

\* the row built for one analysis result
SheetRow(job) ==
    << "timestamp", "job_title", "company", job.match_score, "summary",
       "REVIEW", job.recommendation, "job_url", job.job_id >>

SheetRows(analysis_results) ==
    [ i \in 1..Len(analysis_results) |-> SheetRow(analysis_results[i]) ]

\* values().get leaves out the empty cells at the end of a row
RECURSIVE TrimTrailing(_)
TrimTrailing(cells) ==
    IF cells = <<>> THEN cells
    ELSE IF cells[Len(cells)] = "" THEN TrimTrailing(SubSeq(cells, 1, Len(cells) - 1))
    ELSE cells

\* values().get over GOOGLE_SHEET_RANGE
ReadRange(rows) ==
    [ i \in 1..Len(rows) |-> TrimTrailing(SubSeq(rows[i], 1, RangeColumns)) ]

HasKey(row) == Len(row) >= KeyColumn

\* get_existing_job_data: the keys of the dictionary it returns; a failed
\* read returns the empty dictionary
ExistingKeys(rows, fail) ==
    IF "read" \in fail THEN {}
    ELSE LET values == ReadRange(rows) IN
         { values[i][KeyColumn] : i \in { j \in 1..Len(values) : HasKey(values[j]) } }

\* existing_job_data[job_id]['row_index'] + 1: a later row with the same
\* key replaces the earlier one in the dictionary
RowIndex(rows, key) ==
    LET values == ReadRange(rows)
        at == { i \in 1..Len(values) : HasKey(values[i]) /\ values[i][KeyColumn] = key }
    IN CHOOSE i \in at : \A j \in at : j <= i

\* the rows queued for append
FilteredValues(values, existing) ==
    LET new(row) == HasKey(row) /\ row[KeyColumn] \notin existing
    IN SelectSeq(values, new)

\* the rows queued for update
Updates(values, existing, force_update) ==
    LET known(row) == HasKey(row) /\ row[KeyColumn] \in existing /\ force_update
    IN SelectSeq(values, known)

\* values().batchUpdate: one write per queued row, in order
RECURSIVE BatchUpdate(_, _)
BatchUpdate(rows, updates) ==
    IF updates = <<>> THEN rows
    ELSE BatchUpdate([rows EXCEPT ![RowIndex(rows, Head(updates)[KeyColumn])] = Head(updates)],
                     Tail(updates))

\* append_to_sheet with an empty list of rows returning False
AppendToSheet_EmptyFails(rows, values, force_update, fail) ==
    IF values = <<>> THEN [rows |-> rows, ret |-> FALSE, appended |-> 0]
    ELSE [rows |-> rows \o values, ret |-> "service" \notin fail, appended |-> Len(values)]

\* append_to_sheet: the data rows it leaves and the value it returns.  fail
\* is the set of remote calls that fail during the call.
AppendToSheet(rows, values, force_update, fail) ==
    IF values = <<>> THEN [rows |-> rows, ret |-> TRUE, appended |-> 0]
    ELSE IF "service" \in fail THEN [rows |-> rows, ret |-> FALSE, appended |-> 0]
    ELSE LET existing == ExistingKeys(rows, fail)
             filtered_values == FilteredValues(values, existing)
             updates == Updates(values, existing, force_update)
             updated == IF updates # <<>> THEN BatchUpdate(rows, updates) ELSE rows
         IN IF updates # <<>> /\ "update" \in fail
            THEN [rows |-> rows, ret |-> FALSE, appended |-> 0]
            ELSE IF filtered_values # <<>> /\ "append" \in fail
            THEN [rows |-> updated, ret |-> FALSE, appended |-> 0]
            ELSE [rows |-> updated \o filtered_values, ret |-> TRUE,
                  appended |-> Len(filtered_values)]

\* update_sheet_headers
UpdateSheetHeaders(header, fail) ==
    IF "service" \in fail \/ "headers" \in fail THEN header ELSE "canonical"

\* save_analyzed_jobs_to_sheet: the header update, whose result is dropped,
\* then append_to_sheet, then the local CSV copy; an exception while the copy
\* is written is caught and turns the result into False
SaveAnalyzedJobs(sh, analysis_results, force_update, fail) ==
    LET out == AppendToSheet(sh.rows, SheetRows(analysis_results), force_update, fail)
    IN [ sheet |-> [header |-> UpdateSheetHeaders(sh.header, fail), rows |-> out.rows],
         ret |-> IF "copy" \in fail THEN FALSE ELSE out.ret,
         appended |-> out.appended ]

\* the calls that can fail in one publish: none, or one of the five remote
\* calls, or the write of the local copy
Failures == { {}, {"headers"}, {"service"}, {"read"}, {"update"}, {"append"}, {"copy"} }

save_analyzed_jobs_to_sheet(inputs, cap) ==
    \E analysis_results \in inputs, force_update \in BOOLEAN, fail \in Failures :
        LET out == SaveAnalyzedJobs(sheet, analysis_results, force_update, fail) IN
        /\ Len(out.sheet.rows) <= cap
        /\ sheet' = out.sheet
        /\ last' = [ op |-> "save_analyzed_jobs_to_sheet",
                     arg |-> analysis_results,
                     force_update |-> force_update,
                     fail |-> fail,
                     ret |-> out.ret,
                     appended |-> out.appended ]
        /\ UNCHANGED <<jobs, scraping_history, today, pipeline, analysis, scraper>>


(***************************************************************************)
(* main.py and llm_analyzer.py: one pipeline run.                          *)
(***************************************************************************)
MAX_JOBS_TO_ANALYZE == 50
MATCH_SCORE_THRESHOLD == 7

FirstN(s, n) == SubSeq(s, 1, IF n < Len(s) THEN n ELSE Len(s))

\* config["max_jobs_to_analyze"] after config.update(config_overrides)
MaxJobsToAnalyze(config_overrides) ==
    IF ~config_overrides.none /\ "max_jobs_to_analyze" \in config_overrides.keys
    THEN config_overrides.max_jobs_to_analyze
    ELSE MAX_JOBS_TO_ANALYZE

\* config_overrides.get('force_update', False)
ForceUpdate(config_overrides) ==
    "force_update" \in config_overrides.keys /\ config_overrides.force_update

\* a filter-only choice: the new listings, whether there are any or not
ChooseJobsData_NewOnly(new_jobs, all_jobs, max_jobs_to_analyze) == new_jobs

\* jobs_data as Step 2 leaves it
ChooseJobsData(new_jobs, all_jobs, max_jobs_to_analyze) ==
    IF new_jobs # <<>> THEN new_jobs
    ELSE FirstN(all_jobs, max_jobs_to_analyze)

\* jobs_data as Step 4 hands it to analyze_jobs_batch
LimitJobs(jobs_data, max_jobs_to_analyze) ==
    IF max_jobs_to_analyze # 0 /\ Len(jobs_data) > max_jobs_to_analyze
    THEN FirstN(jobs_data, max_jobs_to_analyze)
    ELSE jobs_data

\* prefilter_jobs: every kept listing gets the same relevance score, so the
\* sort keeps the order
PrefilterJobs(jobs_data, max_jobs) ==
    LET described(job) == Get(job.descriptionText, "") # ""
    IN FirstN(SelectSeq(jobs_data, described), max_jobs)

\* analyze_job, for an outcome that is not "none"
AnalyzeJob(job, outcome) ==
    [ job_id |-> Get(job.id, "<time>"),
      recommendation |-> RecommendationFor(job),
      match_score |-> IF outcome = "high" THEN MATCH_SCORE_THRESHOLD
                                          ELSE MATCH_SCORE_THRESHOLD - 1 ]

\* results.sort(key=match_score, reverse=True): stable
InsertByScore(sorted, x) ==
    LET k == Cardinality({ i \in 1..Len(sorted) : sorted[i].match_score >= x.match_score })
    IN SubSeq(sorted, 1, k) \o <<x>> \o SubSeq(sorted, k + 1, Len(sorted))

\* the results left in the order they were collected
SortByScore_CompletionOrder(results) == results

RECURSIVE SortByScore(_)
SortByScore(results) ==
    IF results = <<>> THEN results
    ELSE InsertByScore(SortByScore(SubSeq(results, 1, Len(results) - 1)),
                       results[Len(results)])

\* completion orders of n concurrent tasks: as submitted, and reversed
Orders(n) == { [k \in 1..n |-> k], [k \in 1..n |-> n + 1 - k] }

\* analyze_jobs_batch: the tasks complete in the order given, each with its
\* outcome; the results of those that have one are collected and sorted
AnalyzeJobsBatch(filtered_jobs, outcome, order) ==
    LET done == [ k \in 1..Len(filtered_jobs) |-> order[k] ]
        succeeded(i) == outcome[i] # "none"
        results == [ k \in 1..Len(SelectSeq(done, succeeded)) |->
                       LET i == SelectSeq(done, succeeded)[k]
                       IN AnalyzeJob(filtered_jobs[i], outcome[i]) ]
    IN SortByScore(results)

\* extract_best_matches
ExtractBestMatches(analysis_results, threshold) ==
    LET best(job) == job.match_score >= threshold
    IN SelectSeq(analysis_results, best)

\* Step 1: a failed sheet check turns the publish off and the run goes on
SkipSheets_Never(skip_sheets, sheet_exists) == skip_sheets

SkipSheets(skip_sheets, sheet_exists) == skip_sheets \/ ~sheet_exists

\* main up to the scrape: the configuration and Step 1
main_begin ==
    /\ pipeline.pc \in {"idle", "done"}
    /\ (IF pipeline.pc = "idle" THEN 0 ELSE pipeline.n) < MaxRuns
    /\ \E config_overrides \in ConfigOverrides, sheet_exists \in BOOLEAN :
         /\ pipeline' = [ pc |-> "scrape",
                          n |-> (IF pipeline.pc = "idle" THEN 0 ELSE pipeline.n) + 1,
                          config_overrides |-> config_overrides,
                          sheet_exists |-> sheet_exists,
                          skip_sheets |-> SkipSheets(FALSE, sheet_exists),
                          left_behind |-> IF pipeline.pc = "done" /\ "aborted" \in DOMAIN pipeline
                                          THEN pipeline.inserted ELSE {} ]
         /\ sheet' = IF ~sheet_exists THEN sheet
                     ELSE [sheet EXCEPT !.header =
                             IF @ = "none" THEN "legacy" ELSE "canonical"]
    /\ UNCHANGED <<jobs, scraping_history, today, last, analysis, scraper>>

\* the jobs table after Step 2: add_jobs_to_database has committed when
\* record_scraping_run or the write of the jobs file raises
StoreAfterScrape_RollsBack(tbl, added, aborted) ==
    IF aborted THEN tbl ELSE AfterAdd(tbl, added)

StoreAfterScrape(tbl, added, aborted) == AfterAdd(tbl, added)

\* Step 2 when the scrape fails
main_scrape_error ==
    /\ pipeline.pc = "scrape"
    /\ pipeline' = [ pc |-> "done", n |-> pipeline.n, aborted |-> "scrape",
                     inserted |-> {} ]
    /\ UNCHANGED <<jobs, scraping_history, today, last, sheet, analysis, scraper>>

\* Step 2 when the scrape returns jobs; the write of the jobs file can
\* raise
main_scrape ==
    /\ pipeline.pc = "scrape"
    /\ \E all_jobs \in Fetches, run_id \in RunIds, file_error \in BOOLEAN :
         LET new_jobs == FilterNew(jobs, all_jobs)
             added == AddRun(jobs, all_jobs, CurrentDate)
             row == HistoryRow(run_id, CurrentDate, "cfg", Len(all_jobs), added.new)
             max_jobs_to_analyze == MaxJobsToAnalyze(pipeline.config_overrides)
             aborted == added.raised \/ RunIdTaken(scraping_history, run_id) \/ file_error
         IN
         /\ jobs' = StoreAfterScrape(jobs, added, aborted)
         /\ scraping_history' = IF added.raised THEN scraping_history
                                ELSE InsertRun(scraping_history, row)
         /\ pipeline' =
              IF aborted
              THEN [ pc |-> "done", n |-> pipeline.n, aborted |-> "scrape",
                     inserted |-> KnownJobIds(AfterAdd(jobs, added)) \ KnownJobIds(jobs) ]
              ELSE [ pipeline EXCEPT !.pc = "analyze" ] @@
                   [ all_jobs |-> all_jobs,
                     known_before |-> KnownJobIds(jobs),
                     new_jobs |-> new_jobs,
                     jobs_data |-> ChooseJobsData(new_jobs, all_jobs, max_jobs_to_analyze) ]
    /\ UNCHANGED <<today, last, sheet, analysis, scraper>>

\* Steps 3 and 4
main_analyze ==
    /\ pipeline.pc = "analyze"
    /\ LET max_jobs_to_analyze == MaxJobsToAnalyze(pipeline.config_overrides)
           filtered_jobs == PrefilterJobs(LimitJobs(pipeline.jobs_data, max_jobs_to_analyze),
                                          MAX_JOBS_TO_ANALYZE)
           n == Len(filtered_jobs)
       IN \E outcome \in [1..n -> Outcomes], order \in Orders(n) :
            LET analysis_results == AnalyzeJobsBatch(filtered_jobs, outcome, order) IN
            pipeline' = [ pipeline EXCEPT !.pc = "publish" ] @@
                        [ analyzed |-> filtered_jobs,
                          analysis_results |-> analysis_results,
                          best_matches |-> ExtractBestMatches(analysis_results,
                                                              MATCH_SCORE_THRESHOLD) ]
    /\ UNCHANGED <<jobs, scraping_history, today, last, sheet, analysis, scraper>>

\* Step 5
main_publish(failures) ==
    /\ pipeline.pc = "publish"
    /\ \E fail \in failures :
         LET out == SaveAnalyzedJobs(sheet, pipeline.best_matches,
                                     ForceUpdate(pipeline.config_overrides),
                                     fail)
         IN
         IF pipeline.skip_sheets
         THEN /\ sheet' = sheet
              /\ pipeline' = [ pipeline EXCEPT !.pc = "done" ] @@
                             [ saved |-> "skipped", appended |-> 0, fail |-> {} ]
         ELSE IF pipeline.config_overrides.none
         THEN /\ sheet' = sheet
              /\ pipeline' = [ pipeline EXCEPT !.pc = "done" ] @@
                             [ saved |-> "AttributeError", appended |-> 0, fail |-> {} ]
         ELSE /\ sheet' = out.sheet
              /\ pipeline' = [ pipeline EXCEPT !.pc = "done" ] @@
                             [ saved |-> IF out.ret THEN "True" ELSE "False",
                               appended |-> out.appended,
                               fail |-> fail ]
    /\ UNCHANGED <<jobs, scraping_history, today, last, analysis, scraper>>


(***************************************************************************)
(* llm_analyzer.py, extract_response_sections.  A response text is a list  *)
(* of tokens: a tag, a keyword of the recommendation in some case, or one  *)
(* character (a digit, the point, a blank, a letter).  No tag and no       *)
(* keyword starts inside another token, so a pattern that matches a tag or *)
(* a keyword matches whole tokens.  A float is the fraction num/den that   *)
(* float() reads from the digits.                                          *)
(***************************************************************************)
MaxTokens == 5

TextSections ==
    { "key_strengths", "critical_gaps", "cv_tailoring",
      "experience_positioning", "talking_points", "summary" }

SectionTags == { "human_fit", "ats_fit", "recommendation" } \cup TextSections

OpenTag ==
    [ score |-> "<score>", human_fit |-> "<human_fit>", ats_fit |-> "<ats_fit>",
      key_strengths |-> "<key_strengths>", critical_gaps |-> "<critical_gaps>",
      cv_tailoring |-> "<cv_tailoring>",
      experience_positioning |-> "<experience_positioning>",
      talking_points |-> "<talking_points>",
      recommendation |-> "<recommendation>", summary |-> "<summary>" ]

CloseTag ==
    [ score |-> "</score>", human_fit |-> "</human_fit>", ats_fit |-> "</ats_fit>",
      key_strengths |-> "</key_strengths>", critical_gaps |-> "</critical_gaps>",
      cv_tailoring |-> "</cv_tailoring>",
      experience_positioning |-> "</experience_positioning>",
      talking_points |-> "</talking_points>",
      recommendation |-> "</recommendation>", summary |-> "</summary>" ]

\* int() of one digit
DigitValue ==
    [ d \in { "0", "1", "2", "3", "4", "5", "6", "7", "8", "9" } |->
        CASE d = "0" -> 0 [] d = "1" -> 1 [] d = "2" -> 2 [] d = "3" -> 3
          [] d = "4" -> 4 [] d = "5" -> 5 [] d = "6" -> 6 [] d = "7" -> 7
          [] d = "8" -> 8 [] d = "9" -> 9 ]

IsDigit(token) == token \in DOMAIN DigitValue      \* \d
IsSpace(token) == token \in { " ", "\n", "\t" }    \* \s

\* str.upper() of one token
Upper(token) ==
    CASE token \in { "pursue", "Pursue", "PURSUE" } -> "PURSUE"
      [] token \in { "consider", "Consider", "CONSIDER" } -> "CONSIDER"
      [] token \in { "avoid", "Avoid", "AVOID" } -> "AVOID"
      [] token = "x" -> "X"
      [] OTHER -> token

\* the length of the longest run of digits, or of blanks, from position p
RECURSIVE DigitRun(_, _)
DigitRun(text, p) ==
    IF p <= Len(text) /\ IsDigit(text[p]) THEN 1 + DigitRun(text, p + 1) ELSE 0

RECURSIVE SpaceRun(_, _)
SpaceRun(text, p) ==
    IF p <= Len(text) /\ IsSpace(text[p]) THEN 1 + SpaceRun(text, p + 1) ELSE 0

\* \d+(?:\.\d+)? at position p: the number of tokens it takes, 0 when it
\* does not match there
NumberAt(text, p) ==
    LET whole == DigitRun(text, p)
        frac == IF p + whole <= Len(text) /\ text[p + whole] = "."
                THEN DigitRun(text, p + whole + 1) ELSE 0
    IN IF whole = 0 THEN 0
       ELSE IF frac > 0 THEN whole + 1 + frac
       ELSE whole

RECURSIVE Pow10(_)
Pow10(n) == IF n = 0 THEN 1 ELSE 10 * Pow10(n - 1)

RECURSIVE DigitsValue(_)
DigitsValue(digits) ==
    IF digits = <<>> THEN 0
    ELSE 10 * DigitsValue(SubSeq(digits, 1, Len(digits) - 1))
         + DigitValue[digits[Len(digits)]]

\* float() of a text that \d+(?:\.\d+)? matched
Float(number) ==
    LET whole == DigitRun(number, 1)
        frac == Len(number) - whole - (IF Len(number) > whole THEN 1 ELSE 0)
    IN [ num |-> DigitsValue(SelectSeq(number, IsDigit)), den |-> Pow10(frac) ]

Zero == [ num |-> 0, den |-> 1 ]        \* 0.0

\* re.search(r'<score>(\d+(?:\.\d+)?)</score>', text): the start of the
\* leftmost match, 0 when there is none
ScoreMatch(text) ==
    LET at == { i \in 1..Len(text) :
                  /\ text[i] = OpenTag["score"]
                  /\ NumberAt(text, i + 1) > 0
                  /\ i + 1 + NumberAt(text, i + 1) <= Len(text)
                  /\ text[i + 1 + NumberAt(text, i + 1)] = CloseTag["score"] }
    IN IF at = {} THEN 0 ELSE CHOOSE i \in at : \A j \in at : i <= j

Score(text) ==
    LET i == ScoreMatch(text)
    IN IF i = 0 THEN Zero
       ELSE Float(SubSeq(text, i + 1, i + NumberAt(text, i + 1)))

\* re.search(r'<tag>\s*(.+?)\s*</tag>', text, re.DOTALL): the start of the
\* leftmost match, 0 when there is none.  The group takes at least one
\* character, so a closing tag right after the opening tag does not close it.
SectionMatch(text, tag) ==
    LET at == { i \in 1..Len(text) :
                  /\ text[i] = OpenTag[tag]
                  /\ \E k \in (i + 2)..Len(text) : text[k] = CloseTag[tag] }
    IN IF at = {} THEN 0 ELSE CHOOSE i \in at : \A j \in at : i <= j

\* group(1) of that match: the first \s* takes the most blanks that leave a
\* match, the group the fewest characters that do
SectionGroup(text, tag) ==
    LET i == SectionMatch(text, tag)
        closes(p) == { k \in (p + 1)..Len(text) : text[k] = CloseTag[tag] }
        blanks == { w \in 0..SpaceRun(text, i + 1) : closes(i + 1 + w) # {} }
        w == CHOOSE x \in blanks : \A y \in blanks : y <= x
        p == i + 1 + w
        k == CHOOSE x \in closes(p) : \A y \in closes(p) : x <= y
        ends == { e \in p..(k - 1) : \A j \in (e + 1)..(k - 1) : IsSpace(text[j]) }
        e == CHOOSE x \in ends : \A y \in ends : x <= y
    IN SubSeq(text, p, e)

\* str.strip()
RECURSIVE Strip(_)
Strip(text) ==
    IF text = <<>> THEN text
    ELSE IF IsSpace(text[1]) THEN Strip(Tail(text))
    ELSE IF IsSpace(text[Len(text)]) THEN Strip(SubSeq(text, 1, Len(text) - 1))
    ELSE text

\* the content of a section, "" when the pattern does not match
Section(text, tag) ==
    IF SectionMatch(text, tag) = 0 THEN <<>> ELSE Strip(SectionGroup(text, tag))

\* re.search(r'(\d+(?:\.\d+)?)', content) and float() of its group
ScoreInText(content) ==
    LET at == { p \in 1..Len(content) : IsDigit(content[p]) }
        p == CHOOSE x \in at : \A y \in at : x <= y
    IN IF at = {} THEN Zero
       ELSE Float(SubSeq(content, p, p + NumberAt(content, p) - 1))

\* human_fit and ats_fit
FitScore(text, tag) ==
    IF SectionMatch(text, tag) = 0 THEN Zero ELSE ScoreInText(Section(text, tag))

StartsWith(content, keyword) == content # <<>> /\ Upper(content[1]) = keyword

Contains(content, keyword) == \E i \in 1..Len(content) : Upper(content[i]) = keyword

\* the code that stands first in the text, whatever its priority
RecommendationCode_ByPosition(text) ==
    LET recommendation_text == Section(text, "recommendation")
        at == { i \in 1..Len(recommendation_text) :
                  Upper(recommendation_text[i]) \in { "PURSUE", "CONSIDER", "AVOID" } }
    IN IF at = {} THEN "REVIEW"
       ELSE Upper(recommendation_text[CHOOSE i \in at : \A j \in at : i <= j])

RecommendationCode(text) ==
    LET recommendation_text == Section(text, "recommendation") IN
    IF SectionMatch(text, "recommendation") = 0 THEN "REVIEW"
    ELSE IF StartsWith(recommendation_text, "PURSUE") THEN "PURSUE"
    ELSE IF StartsWith(recommendation_text, "CONSIDER") THEN "CONSIDER"
    ELSE IF StartsWith(recommendation_text, "AVOID") THEN "AVOID"
    ELSE IF Contains(recommendation_text, "PURSUE") THEN "PURSUE"
    ELSE IF Contains(recommendation_text, "CONSIDER") THEN "CONSIDER"
    ELSE IF Contains(recommendation_text, "AVOID") THEN "AVOID"
    ELSE "REVIEW"

\* the sections without the numeric fit score taken from the text of the tag
ExtractResponseSections_TagOnly(response_text) ==
    [ score |-> Score(response_text),
      human_fit |-> Zero,
      human_fit_text |-> <<>>,
      ats_fit |-> Zero,
      ats_fit_text |-> <<>>,
      key_strengths |-> Section(response_text, "key_strengths"),
      critical_gaps |-> Section(response_text, "critical_gaps"),
      cv_tailoring |-> Section(response_text, "cv_tailoring"),
      experience_positioning |-> Section(response_text, "experience_positioning"),
      talking_points |-> Section(response_text, "talking_points"),
      recommendation |-> Section(response_text, "recommendation"),
      recommendation_code |-> RecommendationCode(response_text),
      summary |-> Section(response_text, "summary") ]

ExtractResponseSections(response_text) ==
    [ score |-> Score(response_text),
      human_fit |-> FitScore(response_text, "human_fit"),
      human_fit_text |-> Section(response_text, "human_fit"),
      ats_fit |-> FitScore(response_text, "ats_fit"),
      ats_fit_text |-> Section(response_text, "ats_fit"),
      key_strengths |-> Section(response_text, "key_strengths"),
      critical_gaps |-> Section(response_text, "critical_gaps"),
      cv_tailoring |-> Section(response_text, "cv_tailoring"),
      experience_positioning |-> Section(response_text, "experience_positioning"),
      talking_points |-> Section(response_text, "talking_points"),
      recommendation |-> Section(response_text, "recommendation"),
      recommendation_code |-> RecommendationCode(response_text),
      summary |-> Section(response_text, "summary") ]

\* analyze_job: the score fields of the result it stores
StoredScores(extracted) ==
    [ match_score |-> extracted.score,
      human_fit |-> extracted.human_fit,
      ats_fit |-> extracted.ats_fit ]

\* the texts of up to n tokens over an alphabet
RECURSIVE Texts(_, _)
Texts(alphabet, n) ==
    IF n = 0 THEN { <<>> }
    ELSE LET shorter == Texts(alphabet, n - 1)
         IN shorter \cup { Append(t, a) : t \in { u \in shorter : Len(u) = n - 1 },
                                          a \in alphabet }

ScoreAlphabet == { "<score>", "</score>", "1", "0", "." }
FitAlphabet == { "<human_fit>", "</human_fit>", "1", " ", "x" }
RecommendationAlphabet ==
    { "<recommendation>", "</recommendation>", "pursue", "CONSIDER", "Avoid", "x" }
TextAlphabet == { "<ats_fit>", "</ats_fit>", "<summary>", "</summary>", "1", " " }

\* the response texts: every text of up to MaxTokens tokens around the score
\* tag and around a fit tag, every shorter text around two more tags, and
\* every text of up to MaxTokens tokens that opens a recommendation
Responses ==
    Texts(ScoreAlphabet, MaxTokens) \cup Texts(FitAlphabet, MaxTokens)
    \cup Texts(TextAlphabet, MaxTokens - 1)
    \cup { << "<recommendation>" >> \o t : t \in Texts(RecommendationAlphabet, MaxTokens - 1) }

\* one call of extract_response_sections, as analyze_job makes it on the
\* response text it got
extract_response_sections ==
    /\ last.op = "call_claude_api"
    /\ LET extracted == ExtractResponseSections(last.ret) IN
       last' = [ op |-> "extract_response_sections",
                 arg |-> last.ret,
                 ret |-> extracted,
                 stored |-> StoredScores(extracted) ]
    /\ UNCHANGED <<jobs, scraping_history, today, sheet, pipeline, analysis, scraper>>

(***************************************************************************)
(* llm_analyzer.py, analyze_jobs_batch.  One task per listing runs          *)
(* process_completed_job around analyze_job; the caller waits for finished  *)
(* tasks and takes their results.  A task step is the code between two      *)
(* points where another task may run; the model lets another task run at    *)
(* the entry of the CSV section and between the opening of the file and the *)
(* write, which is at least what the event loop allows.                     *)
(***************************************************************************)
MaxTasks == 3

\* how the analysis of one listing can end: as in Outcomes, or with an
\* exception raised inside analyze_job
TaskOutcomes == Outcomes \cup { "raise" }

BatchJobs == << Listing("j1"), Listing("j2"), Listing("j3"), Listing("j4") >>

\* the calls of analyze_jobs_batch: the listings, how the analysis of each
\* ends, whether csv_output_file is given and whether the name csv is bound
\* in the module (it is imported under __main__ only)
NewBatch(n, outcome, csv_output_file, csv_imported) ==
    [ pc |-> "start",
      jobs |-> SubSeq(BatchJobs, 1, n),
      outcome |-> outcome,
      csv_output_file |-> csv_output_file,
      csv_imported |-> csv_imported,
      task |-> [ k \in 1..n |-> "created" ],
      seen |-> {},
      csv_lock |-> 0,
      csv_file |-> <<>>,
      results |-> <<>>,
      ret |-> <<>> ]

BatchCalls ==
    UNION { { NewBatch(n, outcome, csv_output_file, csv_imported) :
                outcome \in [1..n -> TaskOutcomes],
                csv_output_file \in BOOLEAN, csv_imported \in BOOLEAN } :
            n \in 0..MaxTasks }

Tasks == 1..Len(analysis.task)

\* the value a finished task holds: the result of analyze_job
TaskResult(k) == AnalyzeJob(analysis.jobs[k], analysis.outcome[k])

HasResult(k) == analysis.outcome[k] \in { "low", "high" }

\* the condition under which process_completed_job writes a CSV row
WritesRow(k) ==
    /\ analysis.csv_output_file
    /\ HasResult(k)
    /\ TaskResult(k).match_score >= MATCH_SCORE_THRESHOLD

\* a lock that never holds a task back
LockFree_Always(b) == TRUE

\* csv_lock can be acquired
LockFree(b) == b.csv_lock = 0

\* analyze_jobs_batch up to the creation of the tasks: prefilter, CSV header
batch_start ==
    /\ analysis.pc = "start"
    /\ analysis' =
         IF analysis.csv_output_file /\ ~analysis.csv_imported
         THEN [analysis EXCEPT !.pc = "raised"]
         ELSE [analysis EXCEPT !.pc = "wait",
                            !.jobs = PrefilterJobs(analysis.jobs, MAX_JOBS_TO_ANALYZE),
                            !.csv_file = IF analysis.csv_output_file THEN << "header" >>
                                                                  ELSE <<>>]
    /\ UNCHANGED <<jobs, scraping_history, today, last, sheet, pipeline, scraper>>

\* a task runs analyze_job; it finishes, with a result, with None or with an
\* exception, unless it has a CSV row to write
task_analyze(k) ==
    /\ analysis.pc = "wait"
    /\ analysis.task[k] = "created"
    /\ analysis' = [analysis EXCEPT !.task[k] = IF WritesRow(k) THEN "waiting" ELSE "finished"]
    /\ UNCHANGED <<jobs, scraping_history, today, last, sheet, pipeline, scraper>>

\* async with csv_lock, open(csv_output_file, 'a')
task_lock(k) ==
    /\ analysis.pc = "wait"
    /\ analysis.task[k] = "waiting"
    /\ LockFree(analysis)
    /\ analysis' = [analysis EXCEPT !.task[k] = "open", !.csv_lock = k]
    /\ UNCHANGED <<jobs, scraping_history, today, last, sheet, pipeline, scraper>>

\* writer.writerow, then the file is closed and the lock released
task_write(k) ==
    /\ analysis.pc = "wait"
    /\ analysis.task[k] = "open"
    /\ analysis' = [analysis EXCEPT !.task[k] = "finished",
                              !.csv_lock = 0,
                              !.csv_file = Append(@, TaskResult(k).job_id)]
    /\ UNCHANGED <<jobs, scraping_history, today, last, sheet, pipeline, scraper>>

\* the results of the finished tasks in the order the caller iterates them
RECURSIVE Collected(_)
Collected(order) ==
    IF order = <<>> THEN <<>>
    ELSE (IF HasResult(Head(order)) THEN << TaskResult(Head(order)) >> ELSE <<>>)
         \o Collected(Tail(order))

\* one round of the loop: asyncio.wait returns the set of finished tasks,
\* the caller takes task.result() of each, in the order the set yields
\* them; the result() of a task that raised raises again
batch_wait ==
    /\ analysis.pc = "wait"
    /\ LET done == { k \in Tasks : analysis.task[k] = "finished" } \ analysis.seen IN
       /\ done # {}
       /\ \E order \in { o \in SeqsUpTo(done, Cardinality(done)) : Len(o) = Cardinality(done) } :
            analysis' =
              IF \E k \in done : analysis.outcome[k] = "raise"
              THEN [analysis EXCEPT !.pc = "raised", !.seen = @ \cup done]
              ELSE [analysis EXCEPT !.seen = @ \cup done,
                                 !.results = @ \o Collected(order)]
    /\ UNCHANGED <<jobs, scraping_history, today, last, sheet, pipeline, scraper>>

\* no task is pending: the aggregate file, the sort, the return
batch_return ==
    /\ analysis.pc = "wait"
    /\ analysis.seen = Tasks
    /\ analysis' = [analysis EXCEPT !.pc = "returned", !.ret = SortByScore(analysis.results)]
    /\ UNCHANGED <<jobs, scraping_history, today, last, sheet, pipeline, scraper>>

Init ==
    /\ jobs = {}
    /\ scraping_history = <<>>
    /\ today = 1
    /\ last = [op |-> "initialize_database"]
    /\ sheet = [header |-> "none", rows |-> <<>>]
    /\ pipeline = [pc |-> "idle"]
    /\ analysis = [pc |-> "none"]
    /\ scraper = [pc |-> "none"]

(***************************************************************************)
(* Spec: the jobs table under any sequence of add_jobs_to_database and     *)
(* mark_jobs_as_processed calls.                                           *)
(***************************************************************************)
Next ==
    \/ tick
    \/ add_jobs_to_database(Batches)
    \/ mark_jobs_as_processed(IdLists)

Spec == Init /\ [][Next]_vars

(***************************************************************************)
(* SpecDedup: a first ingest into the empty store, then the queries of a   *)
(* second run.                                                             *)
(***************************************************************************)
NextDedup ==
    \/ jobs = {} /\ add_jobs_to_database(Batches)
    \/ filter_new_jobs(Batches)

SpecDedup == Init /\ [][NextDedup]_vars

(***************************************************************************)
(* SpecStore: ingests and queries of the jobs table in any order.          *)
(***************************************************************************)
\* the lists of this specification: no listing that makes an INSERT raise
StoreBatches == SeqsUpTo({ l \in Listings : l.title # NotBindable }, MaxBatch)

NextStore ==
    \/ add_jobs_to_database(StoreBatches)
    \/ filter_new_jobs(StoreBatches)

SpecStore == Init /\ [][NextStore]_vars

(***************************************************************************)
(* SpecHistory: both tables under any sequence of the three functions that *)
(* write.                                                                  *)
(***************************************************************************)
NextHistory ==
    \/ tick
    \/ add_jobs_to_database(HistoryBatches)
    \/ mark_jobs_as_processed(HistoryIdLists)
    \/ record_scraping_run

SpecHistory == Init /\ [][NextHistory]_vars

(***************************************************************************)
(* SpecSheet: the remote sheet under any sequence of publishes.            *)
(***************************************************************************)
NextSheet == save_analyzed_jobs_to_sheet(PublishBatches, MaxRows)

SpecSheet == Init /\ [][NextSheet]_vars

(***************************************************************************)
(* SpecPublish: one publish into a remote sheet that earlier publishes     *)
(* left in any state.                                                      *)
(***************************************************************************)
RemoteSheets ==
    { [header |-> header, rows |-> SheetRows(published)] :
        header \in { "none", "legacy", "canonical" },
        published \in SeqsUpTo(PublishedResults, MaxRows) }

InitPublish ==
    /\ jobs = {}
    /\ scraping_history = <<>>
    /\ today = 1
    /\ last = [op |-> "initialize_database"]
    /\ sheet \in RemoteSheets
    /\ pipeline = [pc |-> "idle"]
    /\ analysis = [pc |-> "none"]
    /\ scraper = [pc |-> "none"]

NextPublish ==
    /\ last.op = "initialize_database"
    /\ save_analyzed_jobs_to_sheet(PublishBatches, MaxRows + MaxBatch)

SpecPublish == InitPublish /\ [][NextPublish]_vars

(***************************************************************************)
(* SpecRun: pipeline runs one after another, as the scheduler or the       *)
(* command line starts them.                                               *)
(***************************************************************************)
RunFailures == { {}, {"service"} }

NextRun ==
    \/ main_begin
    \/ main_scrape_error
    \/ main_scrape
    \/ main_analyze
    \/ main_publish(RunFailures)

SpecRun == Init /\ [][NextRun]_vars

(***************************************************************************)
(* SpecExtract: extract_response_sections applied to a response text.      *)
(***************************************************************************)
InitExtract ==
    /\ jobs = {}
    /\ scraping_history = <<>>
    /\ today = 1
    /\ last \in { [op |-> "call_claude_api", ret |-> text] : text \in Responses }
    /\ sheet = [header |-> "none", rows |-> <<>>]
    /\ pipeline = [pc |-> "idle"]
    /\ analysis = [pc |-> "none"]
    /\ scraper = [pc |-> "none"]

NextExtract == extract_response_sections

SpecExtract == InitExtract /\ [][NextExtract]_vars

(***************************************************************************)
(* SpecBatch: one call of analyze_jobs_batch, its tasks interleaved in any *)
(* order.                                                                  *)
(***************************************************************************)
InitBatch ==
    /\ jobs = {}
    /\ scraping_history = <<>>
    /\ today = 1
    /\ last = [op |-> "initialize_database"]
    /\ sheet = [header |-> "none", rows |-> <<>>]
    /\ pipeline = [pc |-> "idle"]
    /\ analysis \in BatchCalls
    /\ scraper = [pc |-> "none"]

NextBatch ==
    \/ batch_start
    \/ \E k \in Tasks : task_analyze(k)
    \/ \E k \in Tasks : task_lock(k)
    \/ \E k \in Tasks : task_write(k)
    \/ batch_wait
    \/ batch_return

SpecBatch == InitBatch /\ [][NextBatch]_vars

(***************************************************************************)
(* apify_scraper.py, run_apify_linkedin_scraper: the loop over the batches *)
(* of search URLs and, in each batch, the loop that polls the status of    *)
(* the remote run.  The call is followed from one request to the next.     *)
(***************************************************************************)
BATCH_SIZE == 5

MAX_WAIT_TIME == 300

CHECK_INTERVAL == 10

MaxUrls == 6

\* the statuses on which the polling loop breaks, and the others
TerminalStatuses == {"SUCCEEDED", "FAILED", "TIMED-OUT", "ABORTED"}

RunStatuses == TerminalStatuses \cup {"READY", "RUNNING"}

\* the datasets a succeeded remote run can hold
BatchResults == { << >>, << Listing("j1"), Listing("j2") >> }

TotalBatches(urls_count) == (urls_count + BATCH_SIZE - 1) \div BATCH_SIZE

\* the condition of the polling loop
PollAgain_OneMore(wait_time) == wait_time < MAX_WAIT_TIME + CHECK_INTERVAL

PollAgain(wait_time) == wait_time < MAX_WAIT_TIME

\* the calls of run_apify_linkedin_scraper: the number of search URLs
ScrapeCalls == { [pc |-> "start", urls_count |-> n] : n \in 0..MaxUrls }

\* the end of one batch: its entry of metadata["batches"], the counters and
\* the next turn of the for loop
BatchFailed(s, error) ==
    [ s EXCEPT !.pc = "batch",
               !.batch_num = @ + 1,
               !.failed_batches = @ + 1,
               !.batches = Append(@, [success |-> FALSE, error |-> error, job_count |-> 0]) ]

BatchSucceeded(s, batch_results) ==
    [ s EXCEPT !.pc = "batch",
               !.batch_num = @ + 1,
               !.all_results = @ \o batch_results,
               !.successful_batches = @ + 1,
               !.total_jobs = @ + Len(batch_results),
               !.batches = Append(@, [success |-> TRUE, error |-> "None",
                                      job_count |-> Len(batch_results)]) ]

\* up to the for loop
scrape_start ==
    /\ scraper.pc = "start"
    /\ scraper' = [ pc |-> "batch",
                    urls_count |-> scraper.urls_count,
                    total_batches |-> TotalBatches(scraper.urls_count),
                    batch_num |-> 0,
                    wait_time |-> 0,
                    checks |-> 0,
                    run_status |-> "None",
                    all_results |-> << >>,
                    batches |-> << >>,
                    successful_batches |-> 0,
                    failed_batches |-> 0,
                    total_jobs |-> 0 ]
    /\ UNCHANGED <<jobs, scraping_history, today, last, sheet, pipeline, analysis>>

\* the request that starts the remote run of a batch: it gives a run id, or
\* it raises (an HTTP error, no run id in the answer)
batch_post ==
    /\ scraper.pc = "batch"
    /\ scraper.batch_num < scraper.total_batches
    /\ \E started \in BOOLEAN :
         scraper' = IF started
                    THEN [ scraper EXCEPT !.pc = "poll", !.wait_time = 0,
                                          !.checks = 0, !.run_status = "None" ]
                    ELSE BatchFailed(scraper, "exception")
    /\ UNCHANGED <<jobs, scraping_history, today, last, sheet, pipeline, analysis>>

\* one turn of the polling loop: the status request raises, or it gives a
\* status; a terminal status breaks the loop, another one is followed by
\* the sleep
poll_status ==
    /\ scraper.pc = "poll"
    /\ PollAgain(scraper.wait_time)
    /\ \E raises \in BOOLEAN, status \in RunStatuses :
         scraper' =
           IF raises THEN BatchFailed(scraper, "exception")
           ELSE IF status \in TerminalStatuses
           THEN [ scraper EXCEPT !.pc = "collect", !.run_status = status,
                                 !.checks = @ + 1 ]
           ELSE [ scraper EXCEPT !.run_status = status, !.checks = @ + 1,
                                 !.wait_time = @ + CHECK_INTERVAL ]
    /\ UNCHANGED <<jobs, scraping_history, today, last, sheet, pipeline, analysis>>

\* after the polling loop: the dataset of a succeeded run is fetched (the
\* request can raise), any other status fails the batch
batch_collect ==
    /\ \/ scraper.pc = "collect"
       \/ scraper.pc = "poll" /\ ~PollAgain(scraper.wait_time)
    /\ \E raises \in BOOLEAN, batch_results \in BatchResults :
         scraper' =
           IF scraper.run_status = "SUCCEEDED"
           THEN IF raises THEN BatchFailed(scraper, "exception")
                ELSE BatchSucceeded(scraper, batch_results)
           ELSE BatchFailed(scraper, scraper.run_status)
    /\ UNCHANGED <<jobs, scraping_history, today, last, sheet, pipeline, analysis>>

\* after the for loop: the dictionary returned
scrape_return ==
    /\ scraper.pc = "batch"
    /\ scraper.batch_num = scraper.total_batches
    /\ scraper' = [ scraper EXCEPT !.pc = "returned" ] @@
                  [ ret |-> [ keys |-> {"metadata", "jobs"},
                              jobs |-> scraper.all_results ] ]
    /\ UNCHANGED <<jobs, scraping_history, today, last, sheet, pipeline, analysis>>

(***************************************************************************)
(* SpecScrape: one call of run_apify_linkedin_scraper.  The coroutine is   *)
(* alone on its event loop and every request and every sleep returns, so   *)
(* its next step is always taken.                                          *)
(***************************************************************************)
InitScrape ==
    /\ jobs = {}
    /\ scraping_history = <<>>
    /\ today = 1
    /\ last = [op |-> "initialize_database"]
    /\ sheet = [header |-> "none", rows |-> <<>>]
    /\ pipeline = [pc |-> "idle"]
    /\ analysis = [pc |-> "none"]
    /\ scraper \in ScrapeCalls

NextScrape ==
    \/ scrape_start
    \/ batch_post
    \/ poll_status
    \/ batch_collect
    \/ scrape_return

SpecScrape == InitScrape /\ [][NextScrape]_vars /\ WF_vars(NextScrape)

(***************************************************************************)
(*                               Claims                                    *)
(***************************************************************************)

\* the identifiers of the listings of a batch, as the store reads them
IdsOf(batch) == { JobIdOf(batch[i]) : i \in 1..Len(batch) }

\* filter_new_jobs(L2) was called right after add_jobs_to_database(L1)
\* returned, L1 went into the empty store and every listing of L1 is in L2
DedupCase ==
    /\ last.op = "filter_new_jobs"
    /\ last.after.op = "add_jobs_to_database"
    /\ last.after.before = {}
    /\ ~last.after.raised
    /\ Range(last.after.arg) \subseteq Range(last.arg)

\* C1 as stated: after add_jobs_to_database(L1) on the empty store,
\* filter_new_jobs(L2) with L1 a subset of L2 returns exactly the listings
\* of L2 whose identifier is not an identifier of L1.
C1_Original ==
    DedupCase =>
        LET unseen(job) == JobIdOf(job) \notin IdsOf(last.after.arg)
        IN last.ret = SelectSeq(last.arg, unseen)

\* C1 (amended): after add_jobs_to_database(L1) on the empty store,
\* filter_new_jobs(L2) with L1 a subset of L2 returns, in input order,
\* exactly the listings of L2 whose job_id is empty or missing or is not the
\* job_id of a listing of L1.
C1_FilterAfterIngest ==
    DedupCase =>
        LET unseen(job) ==
                JobIdOf(job) = "" \/ JobIdOf(job) \notin IdsOf(last.after.arg)
        IN last.ret = SelectSeq(last.arg, unseen)

\* L1 put a row into the store, L2 holds more than L1, and the filter kept
\* some listings of L2 and dropped others
C1_Witness ==
    /\ DedupCase
    /\ last.after.ret.new > 0
    /\ Range(last.arg) # Range(last.after.arg)
    /\ last.ret # <<>>
    /\ last.ret # last.arg

(***************************************************************************)
(* Steps of the listing store, told apart by the call they record.         *)
(***************************************************************************)
AddStep == last'.op = "add_jobs_to_database" /\ today' = today
MarkStep == last'.op = "mark_jobs_as_processed" /\ today' = today
RecordStep == last'.op = "record_scraping_run" /\ today' = today

RowsOf(tbl, job_id) == { r \in tbl : r.job_id = job_id }

\* the last call was add_jobs_to_database with one listing
SingleAdd == last.op = "add_jobs_to_database" /\ Len(last.arg) = 1

\* C2 as stated, first call: add_jobs_to_database with a single listing that
\* is not stored returns new=1, updated=0.
C2_FirstCall_Original ==
    (SingleAdd /\ JobIdOf(last.arg[1]) \notin last.before)
        => ~last.raised /\ last.ret = [new |-> 1, updated |-> 0]

\* C2, second call: the same single listing again returns new=0, updated=1,
\* leaves one row for the identifier and keeps its first_seen_date.
C2_SecondCall ==
    ( /\ AddStep
      /\ SingleAdd
      /\ ~last.raised
      /\ last.ret = [new |-> 1, updated |-> 0]
      /\ last'.arg = last.arg )
    => LET job_id == JobIdOf(last.arg[1]) IN
       /\ ~last'.raised
       /\ last'.ret = [new |-> 0, updated |-> 1]
       /\ Cardinality(RowsOf(jobs', job_id)) = 1
       /\ \A r \in RowsOf(jobs, job_id), r2 \in RowsOf(jobs', job_id) :
              r2.first_seen_date = r.first_seen_date

\* C2 as stated: calling add_jobs_to_database twice with the same single
\* listing returns new=1, updated=0 and then new=0, updated=1, with one row
\* for the identifier and the first_seen_date of the first call.
C2_Original == []C2_FirstCall_Original /\ [][C2_SecondCall]_vars

\* C2 (amended), first call: for a single listing with a non-empty job_id
\* that is not stored, a call that returns returns new=1, updated=0 and
\* stores one row whose first_seen_date is the date of the call.
C2_FirstCall ==
    ( /\ SingleAdd
      /\ JobIdOf(last.arg[1]) # ""
      /\ JobIdOf(last.arg[1]) \notin last.before
      /\ ~last.raised )
    => /\ last.ret = [new |-> 1, updated |-> 0]
       /\ Cardinality(RowsOf(jobs, JobIdOf(last.arg[1]))) = 1
       /\ \A r \in RowsOf(jobs, JobIdOf(last.arg[1])) :
              r.first_seen_date = last.date

\* C2 (amended): calling add_jobs_to_database twice with the same single
\* listing whose job_id is non-empty and not stored, both calls returning,
\* returns new=1, updated=0 and then new=0, updated=1; afterwards the store
\* holds exactly one row for the identifier, with the first_seen_date the
\* first call set.
C2_TwiceSameListing == []C2_FirstCall /\ [][C2_SecondCall]_vars

\* the second call came on a later day than the first
C2_Witness ==
    /\ SingleAdd
    /\ last.ret = [new |-> 0, updated |-> 1]
    /\ \E r \in RowsOf(jobs, JobIdOf(last.arg[1])) :
           /\ r.first_seen_date < today
           /\ r.last_checked_date = today
           /\ r.title = last.arg[1].title

\* C5: when add_jobs_to_database processes a listing whose identifier is
\* stored, only last_checked_date of that row changes, to the current date;
\* job_id, title, company, location, first_seen_date and is_processed keep
\* their values, and no other row is modified or removed.
C5_UpdateFrame ==
    [][ AddStep =>
          \A r \in jobs :
            \E r2 \in jobs' :
              /\ r2 = [r EXCEPT !.last_checked_date = r2.last_checked_date]
              /\ (r.job_id \notin IdsOf(last'.arg) => r2 = r)
              /\ (r.job_id \in IdsOf(last'.arg) /\ ~last'.raised
                    => r2.last_checked_date = today) ]_vars

\* an update of a stored, processed row by a listing that carries another
\* title, company and location, on a later day, with another row in the
\* store
C5_Witness ==
    /\ last.op = "add_jobs_to_database"
    /\ ~last.raised
    /\ \E i \in 1..Len(last.arg) :
         \E r \in RowsOf(jobs, JobIdOf(last.arg[i])) :
           /\ r.job_id \in last.before
           /\ r.title # last.arg[i].title
           /\ r.company # last.arg[i].company
           /\ r.location # last.arg[i].location
           /\ r.first_seen_date < r.last_checked_date
           /\ r.is_processed = 1
    /\ \E r \in jobs : r.job_id \notin IdsOf(last.arg)

\* C6, state part: first_seen_date <= last_checked_date in every row.
C6_SeenBeforeChecked == \A r \in jobs : r.first_seen_date <= r.last_checked_date

\* C6, step part: no step lowers the last_checked_date of a stored row.
C6_Monotone ==
    \A r \in jobs : \A r2 \in RowsOf(jobs', r.job_id) :
        r2.last_checked_date >= r.last_checked_date

\* C6: across any sequence of add_jobs_to_database, mark_jobs_as_processed
\* and record_scraping_run calls under a clock that does not go back, the
\* last_checked_date of a stored row never decreases and first_seen_date <=
\* last_checked_date holds in every row.
C6_DatesAdvance == []C6_SeenBeforeChecked /\ [][C6_Monotone]_vars

\* a row checked later than first seen, a processed row and a recorded run
C6_Witness ==
    /\ \E r \in jobs : r.first_seen_date < r.last_checked_date
    /\ \E r \in jobs : r.is_processed = 1
    /\ scraping_history # <<>>

\* C7: mark_jobs_as_processed(ids) sets is_processed in exactly the stored
\* rows whose identifier is in ids, returns the number of those rows, raises
\* nothing, creates no row and changes no other column; with an empty list
\* it returns 0 and leaves the store as it was.
C7_MarkProcessed ==
    [][ MarkStep =>
          LET ids == Range(last'.arg) IN
          /\ jobs' = { r \in jobs : r.job_id \notin ids }
                     \cup { [r EXCEPT !.is_processed = 1] :
                              r \in { x \in jobs : x.job_id \in ids } }
          /\ last'.ret = Cardinality({ r \in jobs : r.job_id \in ids })
          /\ ~last'.raised
          /\ (last'.arg = <<>> => last'.ret = 0 /\ jobs' = jobs) ]_vars

\* a call with a stored and an unknown identifier, one row left unprocessed
C7_Witness ==
    /\ last.op = "mark_jobs_as_processed"
    /\ last.ret = 1
    /\ Len(last.arg) = 2
    /\ \E r \in jobs : r.is_processed = 1 /\ r.job_id \in Range(last.arg)
    /\ \E r \in jobs : r.is_processed = 0
    /\ \E id \in Range(last.arg) : RowsOf(jobs, id) = {}

\* C8: record_scraping_run appends exactly one row to the run history and
\* changes no other history row and no listing row; with a run_id already
\* present it raises and leaves the run history as it was.
C8_RecordRun ==
    [][ RecordStep =>
          LET taken == \E i \in 1..Len(scraping_history) :
                           scraping_history[i].run_id = last'.arg.run_id
          IN
          /\ jobs' = jobs
          /\ last'.raised = taken
          /\ taken => scraping_history' = scraping_history
          /\ ~taken =>
               /\ Len(scraping_history') = Len(scraping_history) + 1
               /\ SubSeq(scraping_history', 1, Len(scraping_history))
                    = scraping_history
               /\ scraping_history'[Len(scraping_history')] = last'.arg ]_vars

\* a refused run_id whose stored row differs from the one offered, with
\* another run and a listing in the store
C8_Witness ==
    /\ last.op = "record_scraping_run"
    /\ last.raised
    /\ Len(scraping_history) = 2
    /\ last.arg \notin Range(scraping_history)
    /\ jobs # {}

\* C9 as stated: if add_jobs_to_database aborts after it has processed k
\* listings, the changes for those k listings remain in the store.
C9_Original ==
    [][ (AddStep /\ last'.raised) =>
          jobs' = AddRun(jobs, SubSeq(last'.arg, 1, last'.k), today).tbl ]_vars

\* C9 (amended): add_jobs_to_database is batch-atomic: the inserts and
\* updates of one call are committed together after the last listing, so if
\* the call aborts after it has processed k listings, none of the changes
\* for those k listings remain in the store.
C9_BatchAtomic == [][ (AddStep /\ last'.raised) => jobs' = jobs ]_vars

\* a call that raised after it had inserted or updated a row
C9_Witness ==
    /\ last.op = "add_jobs_to_database"
    /\ last.raised
    /\ last.k >= 1
    /\ last.ret.new + last.ret.updated >= 1

(***************************************************************************)
(* A pipeline run that scraped and has been through its analysis step.     *)
(***************************************************************************)
Analyzed == pipeline.pc \in {"publish", "done"} /\ "analyzed" \in DOMAIN pipeline

\* the fetched listings that are new to the store: job_id empty, missing,
\* or not stored when the run began
NewFetched ==
    LET unseen(job) == JobIdOf(job) = "" \/ JobIdOf(job) \notin pipeline.known_before
    IN SelectSeq(pipeline.all_jobs, unseen)

FiveFetchedTwoKnown ==
    /\ pipeline.pc = "done"
    /\ "saved" \in DOMAIN pipeline
    /\ Len(pipeline.all_jobs) = 5
    /\ Cardinality({ i \in 1..5 : JobIdOf(pipeline.all_jobs[i]) \in pipeline.known_before }) = 2
    /\ MaxJobsToAnalyze(pipeline.config_overrides) >= 3
    /\ ~pipeline.skip_sheets
    /\ pipeline.fail = {}

\* C4: a run with 5 fetched listings of which 2 are known to the store
\* passes exactly 3 to analysis, and if all 3 analyses succeed and exactly 2
\* score at or above the threshold, exactly 2 rows are published.
C4_EndToEnd ==
    FiveFetchedTwoKnown =>
        /\ Len(pipeline.analyzed) = 3
        /\ ( /\ Len(pipeline.analysis_results) = 3
             /\ Cardinality({ i \in 1..3 : pipeline.analysis_results[i].match_score >= 7 }) = 2 )
           => pipeline.appended = 2

PublishStep == last'.op = "save_analyzed_jobs_to_sheet"

\* the Job IDs of the remote data rows
RemoteJobIds(rows) == { rows[i][JobIdColumn] : i \in 1..Len(rows) }

\* C10: a publish with force_update false, in which no remote call fails, of
\* a batch whose Job IDs are all in the remote sheet returns true, appends
\* no row and leaves the remote data rows as they were.
C10_AllKnownNoChange ==
    [][ ( /\ PublishStep
          /\ ~last'.force_update
          /\ last'.fail = {}
          /\ \A i \in 1..Len(last'.arg) :
                 last'.arg[i].job_id \in RemoteJobIds(sheet.rows) )
        => /\ last'.ret
           /\ last'.appended = 0
           /\ sheet'.rows = sheet.rows ]_vars

\* the number of remote data rows that carry a Job ID
CountJobId(rows, job_id) ==
    Cardinality({ i \in 1..Len(rows) : rows[i][JobIdColumn] = job_id })

\* a publish of one result, in which no remote call fails, whose Job ID is
\* in exactly one remote data row
OneKnownResult ==
    /\ PublishStep
    /\ last'.fail = {}
    /\ Len(last'.arg) = 1
    /\ CountJobId(sheet.rows, last'.arg[1].job_id) = 1

\* C11: a publish with force_update true of a result whose Job ID is already
\* in the remote sheet replaces the remote row of that Job ID, at its
\* position, with the row built from the result, changes no other data row
\* and leaves the number of data rows as it was.
C11_ReplaceInPlace ==
    [][ (OneKnownResult /\ last'.force_update)
        => /\ Len(sheet'.rows) = Len(sheet.rows)
           /\ \A p \in 1..Len(sheet.rows) :
                  sheet'.rows[p] =
                      IF sheet.rows[p][JobIdColumn] = last'.arg[1].job_id
                      THEN SheetRow(last'.arg[1])
                      ELSE sheet.rows[p] ]_vars

\* C12: in a publish in which no remote call fails, a result is taken as
\* existing exactly when its Job ID is in a remote data row: then no row
\* with that Job ID is added, and otherwise the result's row is added and
\* the rows of the other Job IDs stay.
C12_ClassifiedByJobId ==
    [][ (PublishStep /\ last'.fail = {})
        => \A i \in 1..Len(last'.arg) :
               LET job_id == last'.arg[i].job_id IN
               IF job_id \in RemoteJobIds(sheet.rows)
               THEN CountJobId(sheet'.rows, job_id) = CountJobId(sheet.rows, job_id)
               ELSE /\ job_id \in RemoteJobIds(sheet'.rows)
                    /\ \A other \in RemoteJobIds(sheet.rows) :
                           CountJobId(sheet'.rows, other) = CountJobId(sheet.rows, other) ]_vars

\* the failures of a publish that are transport or authentication failures
TransportFailures == { "headers", "service", "read", "update", "append" }

PublishDone == last.op = "save_analyzed_jobs_to_sheet"

\* C13 as stated: the publisher returns true whenever no transport or
\* authentication failure occurred, and returns false only when one occurred.
C13_Original ==
    PublishDone =>
        /\ last.fail \cap TransportFailures = {} => last.ret
        /\ ~last.ret => last.fail \cap TransportFailures # {}

\* C13: the publisher returns true when nothing fails, with zero rows to
\* publish included, and when only the header update or the read of the
\* remote rows fails; it returns false only when the service cannot be
\* built, a batchUpdate or append call fails, or the local CSV copy cannot be
\* written.
C13_ReturnValue ==
    PublishDone =>
        /\ last.fail = {} => last.ret
        /\ last.fail \subseteq { "headers", "read" } => last.ret
        /\ (last.arg = <<>> /\ "copy" \notin last.fail) => last.ret
        /\ ~last.ret => last.fail \cap { "service", "update", "append", "copy" } # {}

\* a publish of zero rows in which nothing fails has returned true
C13_Witness ==
    /\ PublishDone
    /\ last.arg = <<>>
    /\ last.fail = {}
    /\ last.ret

\* C14: a publish sets the remote header row to the canonical list before
\* it writes data rows: whenever a publish changes the data rows, the header
\* row it leaves is the canonical list.
C14_HeaderBeforeRows ==
    [][ (PublishStep /\ sheet'.rows # sheet.rows)
        => sheet'.header = "canonical" ]_vars

ExtractDone == last.op = "extract_response_sections"

FieldNames ==
    { "score", "human_fit", "human_fit_text", "ats_fit", "ats_fit_text",
      "key_strengths", "critical_gaps", "cv_tailoring", "experience_positioning",
      "talking_points", "recommendation", "recommendation_code", "summary" }

\* the field that holds the text of a tag
TextField(tag) ==
    CASE tag = "human_fit" -> "human_fit_text"
      [] tag = "ats_fit" -> "ats_fit_text"
      [] OTHER -> tag

\* the text has no opening tag, or no closing tag, of that name
Untagged(text, tag) ==
    \/ \A i \in 1..Len(text) : text[i] # OpenTag[tag]
    \/ \A i \in 1..Len(text) : text[i] # CloseTag[tag]

\* the text is one pair of tags around a content that has no digit and no
\* blank at either end
TagWithoutNumber(text, tag) ==
    /\ Len(text) >= 3
    /\ text[1] = OpenTag[tag]
    /\ text[Len(text)] = CloseTag[tag]
    /\ \A i \in 2..(Len(text) - 1) :
           /\ ~IsDigit(text[i])
           /\ text[i] \notin { OpenTag[tag], CloseTag[tag] }
    /\ ~IsSpace(text[2])
    /\ ~IsSpace(text[Len(text) - 1])

\* C15: for every response text extract_response_sections returns a record
\* with all thirteen fields; a numeric field whose tag is missing or unclosed,
\* or whose text has no digit at all, is 0.0; a text field whose tag is
\* missing or unclosed is empty; recommendation_code is REVIEW when the
\* recommendation tag is missing or unclosed; and a human_fit or ats_fit tag
\* around a content without a number gives 0.0 and that content as the text.
C15_CompleteRecord ==
    ExtractDone =>
        LET text == last.arg
            r == last.ret
        IN /\ DOMAIN r = FieldNames
           /\ \A tag \in { "score", "human_fit", "ats_fit" } :
                  ( \/ Untagged(text, tag)
                    \/ \A i \in 1..Len(text) : ~IsDigit(text[i]) )
                  => r[tag].num = 0
           /\ \A tag \in SectionTags :
                  Untagged(text, tag) => r[TextField(tag)] = <<>>
           /\ Untagged(text, "recommendation") => r.recommendation_code = "REVIEW"
           /\ \A tag \in { "human_fit", "ats_fit" } :
                  TagWithoutNumber(text, tag)
                  => /\ r[tag].num = 0
                     /\ r[TextField(tag)] = SubSeq(text, 2, Len(text) - 1)

\* a human_fit tag around a letter has given 0.0 and the letter
C15_Witness ==
    /\ ExtractDone
    /\ last.arg = << "<human_fit>", "x", "</human_fit>" >>
    /\ last.ret.human_fit = Zero
    /\ last.ret.human_fit_text = << "x" >>

Codes == { "PURSUE", "CONSIDER", "AVOID" }

\* C16: recommendation_code is one of PURSUE, CONSIDER, AVOID, REVIEW: the
\* keyword the captured recommendation text starts with, in any case, when
\* it starts with one; otherwise the first of PURSUE, CONSIDER, AVOID, in
\* that order, that occurs somewhere in the text; otherwise REVIEW.
C16_RecommendationCode ==
    ExtractDone =>
        LET captured == last.ret.recommendation
            code == last.ret.recommendation_code
            occurs(keyword) == \E i \in 1..Len(captured) : Upper(captured[i]) = keyword
        IN /\ code \in Codes \cup { "REVIEW" }
           /\ IF captured # <<>> /\ Upper(captured[1]) \in Codes
              THEN code = Upper(captured[1])
              ELSE /\ occurs("PURSUE") => code = "PURSUE"
                   /\ (~occurs("PURSUE") /\ occurs("CONSIDER")) => code = "CONSIDER"
                   /\ (~occurs("PURSUE") /\ ~occurs("CONSIDER") /\ occurs("AVOID"))
                      => code = "AVOID"
                   /\ (\A keyword \in Codes : ~occurs(keyword)) => code = "REVIEW"

\* a text that names AVOID before PURSUE, and starts with neither, has
\* given PURSUE
C16_Witness ==
    /\ ExtractDone
    /\ last.arg = << "<recommendation>", "x", "Avoid", "pursue", "</recommendation>" >>
    /\ last.ret.recommendation_code = "PURSUE"

\* C17: the three score values that extract_response_sections produces and
\* analyze_job stores lie between 0 and 10.
C17_ScoresInRange ==
    ExtractDone =>
        \A field \in { "match_score", "human_fit", "ats_fit" } :
            /\ last.stored[field].num >= 0
            /\ last.stored[field].num <= 10 * last.stored[field].den

BatchOver == analysis.pc \in { "raised", "returned" }

\* the listings of the call whose analysis gave a result
Succeeded == { k \in Tasks : analysis.outcome[k] \in { "low", "high" } }

\* C18: in a call without CSV output, whatever way the analysis of a
\* listing ends (no result, or an exception raised inside its task), the
\* call returns, and what it returns holds the results of exactly the
\* listings whose analysis gave one.
C18_FailureIsolated ==
    (BatchOver /\ ~analysis.csv_output_file)
    => /\ analysis.pc = "returned"
       /\ { analysis.ret[i].job_id : i \in 1..Len(analysis.ret) }
          = { analysis.jobs[k].id : k \in Succeeded }

NonIncreasing(scores) ==
    \A i \in 1..Len(scores), j \in 1..Len(scores) : i < j => scores[i] >= scores[j]

\* C19: whatever order the tasks finish and are collected in, the list
\* analyze_jobs_batch returns is in non-increasing order of match_score and
\* holds exactly one result for each listing whose analysis gave one and
\* none for the others; the rows built for the publisher from the best
\* matches are in non-increasing order of their Match Score cell.
C19_SortedComplete ==
    analysis.pc = "returned" =>
        LET ret == analysis.ret
            rows == SheetRows(ExtractBestMatches(ret, MATCH_SCORE_THRESHOLD))
        IN /\ NonIncreasing([ i \in 1..Len(ret) |-> ret[i].match_score ])
           /\ \A k \in Tasks :
                  Cardinality({ i \in 1..Len(ret) : ret[i].job_id = analysis.jobs[k].id })
                  = IF k \in Succeeded THEN 1 ELSE 0
           /\ Len(ret) = Cardinality(Succeeded)
           /\ NonIncreasing([ i \in 1..Len(rows) |-> rows[i][4] ])

\* a call has returned three results that were collected in another order
\* than the one returned
C19_Witness ==
    /\ analysis.pc = "returned"
    /\ Len(analysis.ret) = 3
    /\ analysis.results # analysis.ret
    /\ analysis.ret[1].match_score > analysis.ret[3].match_score

\* the tasks inside the CSV section: the file is open for append
InCsvSection == { k \in Tasks : analysis.task[k] = "open" }

\* C20: with CSV output, at most one task at a time is inside the CSV
\* section, and it holds the lock; every task that has finished with a
\* result at or above the threshold has exactly one row in the file, and no
\* other task has a row.
C20_CsvExclusive ==
    (analysis.pc \in { "wait", "raised", "returned" } /\ analysis.csv_output_file)
    => /\ Cardinality(InCsvSection) <= 1
       /\ \A k \in InCsvSection : analysis.csv_lock = k
       /\ \A k \in Tasks :
              LET written == Cardinality({ i \in 2..Len(analysis.csv_file) :
                                             analysis.csv_file[i] = analysis.jobs[k].id })
              IN IF analysis.task[k] = "finished" /\ analysis.outcome[k] = "high"
                 THEN written = 1
                 ELSE written = 0

\* a call with CSV output has returned after two tasks wrote their rows
C20_Witness ==
    /\ analysis.pc = "returned"
    /\ analysis.csv_output_file
    /\ Len(analysis.csv_file) = 3
    /\ analysis.csv_file[2] # analysis.csv_file[3]

(***************************************************************************)
(* C21.  A run whose sheet check failed.                                   *)
(***************************************************************************)
SheetCheckFailed ==
    /\ pipeline.pc \in {"scrape", "analyze", "publish"}
    /\ ~pipeline.sheet_exists

PollExpired ==
    /\ scraper.pc = "poll"
    /\ scraper.wait_time >= 300
    /\ scraper.run_status \notin TerminalStatuses

\* C23: the polling loop of a batch makes at most 30 status checks, one
\* every 10 seconds up to 300 seconds, and ends also when the remote run
\* never reaches a terminal status; the batch that expired is counted as
\* failed and adds no listing, the loop goes on with the next batch and the
\* call returns with every batch counted.
C23_PollingTerminates ==
    /\ [](scraper.pc \in {"poll", "collect"}
            => /\ scraper.checks <= 30
               /\ scraper.wait_time <= 300
               /\ scraper.wait_time \in {10 * scraper.checks, 10 * (scraper.checks - 1)})
    /\ [][ PollExpired
             => /\ scraper'.failed_batches = scraper.failed_batches + 1
                /\ scraper'.successful_batches = scraper.successful_batches
                /\ scraper'.all_results = scraper.all_results
                /\ scraper'.batch_num = scraper.batch_num + 1
                /\ scraper'.pc = "batch" ]_vars
    /\ [](scraper.pc = "returned"
            => /\ scraper.batch_num = scraper.total_batches
               /\ scraper.successful_batches + scraper.failed_batches
                    = scraper.total_batches)
    /\ (scraper.pc = "poll" ~> scraper.pc = "batch")
    /\ <>(scraper.pc = "returned")

\* the first of two batches expired after 30 checks and the second one
\* gave its listings
C23_Witness ==
    /\ scraper.pc = "returned"
    /\ scraper.total_batches = 2
    /\ scraper.batches[1] = [success |-> FALSE, error |-> "RUNNING", job_count |-> 0]
    /\ scraper.batches[2].success
    /\ Len(scraper.ret.jobs) = 2

(***************************************************************************)
(* C22.  A run whose scrape obtained no listing.                           *)
(***************************************************************************)
\* C22: a run whose scrape step failed, the case where every batch failed
\* or timed out and no listing was obtained included, aborts at that step:
\* it records no scraping run, it has no analysis step and no publish step.
C22_FailedScrapeAborts ==
    [][ (pipeline.pc = "scrape" /\ pipeline'.pc # "scrape"
           /\ ("all_jobs" \in DOMAIN pipeline' => pipeline'.all_jobs = << >>))
        => /\ pipeline'.pc = "done"
           /\ "aborted" \in DOMAIN pipeline'
           /\ scraping_history' = scraping_history ]_vars

(***************************************************************************)
(* C24.  Step 5 of a run started by the scheduler.                         *)
(***************************************************************************)
\* C24: a run started with config_overrides = None whose sheet check
\* succeeded and whose analysis step finished calls
\* save_analyzed_jobs_to_sheet in Step 5, with the results at or above the
\* threshold and overwrite off: Step 5 ends with the value the publisher
\* returned for those results.
C24_SchedulerRunPublishes ==
    [][ (pipeline.pc = "publish" /\ pipeline.config_overrides.none
           /\ pipeline.sheet_exists /\ pipeline'.pc = "done")
        => \E fail \in RunFailures :
             LET out == SaveAnalyzedJobs(sheet, pipeline.best_matches, FALSE, fail) IN
             /\ sheet' = out.sheet
             /\ pipeline'.saved = IF out.ret THEN "True" ELSE "False" ]_vars

(***************************************************************************)
(* C25.  A publish whose read of the remote rows fails.                    *)
(***************************************************************************)
\* C25: when get_existing_job_data fails, the publish of some results
\* appends no row and returns false, so the remote rows are as they were
\* and no row whose key is already in the sheet is appended.
C25_ReadFailureAppendsNothing ==
    [][ (PublishStep /\ last'.fail = {"read"} /\ last'.arg # << >>)
        => /\ ~last'.ret
           /\ last'.appended = 0
           /\ sheet'.rows = sheet.rows ]_vars

(***************************************************************************)
(* C26.  The keys of the remote data rows.                                 *)
(***************************************************************************)
\* no two data rows carry the same key
DistinctKeys(rows) ==
    \A i, j \in 1..Len(rows) :
        (i < j /\ HasKey(rows[i]) /\ HasKey(rows[j]))
        => rows[i][KeyColumn] # rows[j][KeyColumn]

\* C26: a publish call in which no remote call fails, made with any
\* overwrite setting and any batch on a sheet whose data rows have pairwise
\* distinct keys, leaves a sheet whose data rows have pairwise distinct
\* keys; so the keys stay distinct through any sequence of such calls.
C26_KeysStayDistinct ==
    [][ (PublishStep /\ last'.fail = {} /\ DistinctKeys(ReadRange(sheet.rows)))
        => DistinctKeys(ReadRange(sheet'.rows)) ]_vars

(***************************************************************************)
(* C27.  Listings without a job_id.                                        *)
(***************************************************************************)
\* the listing has no job_id key or an empty job_id
NoJobId(job) == job.job_id \in {"", Absent}

\* the positions of a list whose listing has a job_id
WithJobId(batch) == { i \in 1..Len(batch) : ~NoJobId(batch[i]) }

\* C27: no row of the store has an empty job_id or the job_id of a missing
\* key; a call of add_jobs_to_database that returns counts, as new or as
\* updated, exactly the listings of its argument that have a job_id and
\* stores no other job_id than theirs; and every call of filter_new_jobs
\* returns each listing of its argument that has no job_id, in the order
\* of the argument, whether or not it was passed to add_jobs_to_database
\* before.
C27_NoJobIdNeverStored ==
    /\ [](\A r \in jobs : r.job_id \notin {"", Absent})
    /\ [][ (last'.op = "add_jobs_to_database" /\ ~last'.raised)
           => /\ last'.ret.new + last'.ret.updated = Cardinality(WithJobId(last'.arg))
              /\ { r.job_id : r \in jobs' }
                   = { r.job_id : r \in jobs }
                       \cup { last'.arg[i].job_id : i \in WithJobId(last'.arg) } ]_vars
    /\ [][ last'.op = "filter_new_jobs"
           => SelectSeq(last'.ret, NoJobId) = SelectSeq(last'.arg, NoJobId) ]_vars

\* a list with a stored listing and a listing without the job_id key was
\* ingested and counted as one update, and the filter then returned the
\* listing without job_id of the same list, as it had before the ingest
C27_Witness ==
    /\ last.op = "filter_new_jobs"
    /\ last.after.op = "add_jobs_to_database"
    /\ last.after.arg = last.arg
    /\ Len(last.arg) = 2
    /\ last.arg[1].job_id = Absent
    /\ last.arg[2].job_id = "a"
    /\ last.after.ret = [new |-> 0, updated |-> 1]
    /\ last.ret = << last.arg[1] >>

(***************************************************************************)
(* C28.  Listings stored by a run that aborted in its scrape step.         *)
(***************************************************************************)
\* the job_ids of the listings of a list
JobIdsIn(listings) == { listings[i].job_id : i \in 1..Len(listings) }

\* C28: the listings a run inserted before it aborted in its scrape step
\* are in the store when the run ends; no step removes a job_id from the
\* store; and the new listings of a run hold no job_id that was in the
\* store when the run scraped, those an aborted run left there included.
\* So such listings are never passed to analysis as new listings.
C28_AbortedInsertsStay ==
    /\ [][ (pipeline.pc = "scrape" /\ pipeline'.pc = "done")
           => /\ pipeline'.inserted \subseteq { r.job_id : r \in jobs' }
              /\ pipeline'.inserted \cap { r.job_id : r \in jobs } = {} ]_vars
    /\ [][ { r.job_id : r \in jobs } \subseteq { r.job_id : r \in jobs' } ]_vars
    /\ [][ (pipeline.pc = "scrape" /\ pipeline'.pc = "analyze")
           => /\ JobIdsIn(pipeline'.new_jobs) \cap { r.job_id : r \in jobs } = {}
              /\ JobIdsIn(pipeline'.new_jobs) \cap pipeline.left_behind = {}
              /\ pipeline.left_behind \subseteq { r.job_id : r \in jobs } ]_vars
    /\ [](pipeline.pc \in {"analyze", "publish"}
            => /\ JobIdsIn(pipeline.new_jobs) \cap pipeline.left_behind = {}
               /\ (pipeline.new_jobs # << >> => pipeline.jobs_data = pipeline.new_jobs))

\* the run before inserted j1 and j2 and aborted; this run fetched them
\* again among five listings and passes the three others to analysis
C28_Witness ==
    /\ pipeline.pc = "analyze"
    /\ pipeline.left_behind = {"j1", "j2"}
    /\ {"j1", "j2"} \subseteq JobIdsIn(pipeline.all_jobs)
    /\ JobIdsIn(pipeline.jobs_data) = {"j3", "j4", "j5"}

(***************************************************************************)
(* C29.  The listings of one run that are passed to analysis.              *)
(***************************************************************************)
\* C29: the list a run passes to analysis, one analysis task for each of
\* its listings, holds no listing identifier twice, also when the fetched
\* list held a listing several times.
C29_AnalyzedOnce ==
    "analyzed" \in DOMAIN pipeline
    => \A i, j \in 1..Len(pipeline.analyzed) :
           i # j => /\ pipeline.analyzed[i].id # pipeline.analyzed[j].id
                    /\ pipeline.analyzed[i].job_id # pipeline.analyzed[j].job_id

(***************************************************************************)
(* C30.  The processed flag of the listings a run analyzed.                *)
(***************************************************************************)
\* C30: once a run is past its analysis step, every stored listing it
\* analyzed has is_processed = 1 in the jobs table, so the count of rows
\* with is_processed = 1 covers the stored listings analyzed.
C30_AnalyzedAreProcessed ==
    (pipeline.pc \in {"publish", "done"} /\ "analyzed" \in DOMAIN pipeline)
    => \A i \in 1..Len(pipeline.analyzed) :
         \A r \in jobs :
            r.job_id = pipeline.analyzed[i].job_id => r.is_processed = 1

=============================================================================
